---------------------------- MODULE Spec2Model ----------------------------
(***************************************************************************)
(* NicksIntervals: the boundary-aware iInterval (src/iInterval.py), the    *)
(* legacy float Interval and its Multi_Interval container                  *)
(* (src/Interval.py).                                                      *)
(*                                                                         *)
(* Floats are modelled by integers.  math.isclose keeps its relative       *)
(* tolerance of 1e-09, so the value sets hold a pair of distinct values    *)
(* (10^9 and 10^9 + 1) that are within tolerance of each other.  10^9 + 2  *)
(* is within tolerance of 10^9 + 1 and not of 10^9.                        *)
(*                                                                         *)
(* Four specifications:                                                    *)
(*   SpecA      calls of the pure operations of iInterval and Interval     *)
(*   Spec       a Multi_Interval container and its mutating operations     *)
(*   SpecAlias  Spec with object identity followed: the container is built *)
(*              from the caller's Intervals, which the caller may mutate   *)
(*   SpecMerge  an empty container to which only add_merge is applied      *)
(***************************************************************************)
EXTENDS Integers, Sequences, FiniteSets, TLC

VARIABLES
    fn,         \* SpecA: the operation last called ("none" before any call)
    bounds,     \* SpecA: the iBounds passed to iInterval.__init__
    iargs,      \* SpecA: the iInterval operands of the call, self first
    ires,       \* SpecA: the iIntervals the call returned (<<>> for empty)
    raised,     \* SpecA: the call raised an exception
    largs,      \* SpecA: the legacy Interval operands of the call, self first
    lres,       \* SpecA: the legacy Intervals the call returned (<<>> for None)
    intervals,  \* Spec: Multi_Interval.intervals, the member list
    op,         \* Spec: the Multi_Interval method last called
    arg,        \* Spec: the Intervals passed to that call
    restarts,   \* Spec: scans that call started after the first one
    alias,      \* SpecAlias: alias[k] iff member k is the very instance a caller passed
    tracked     \* object identity is followed in alias (SpecAlias) or not (Spec)

varsA == <<fn, bounds, iargs, ires, raised, largs, lres>>
varsM == <<intervals, op, arg, restarts, alias, tracked>>
vars == <<fn, bounds, iargs, ires, raised, largs, lres, intervals, op, arg, restarts,
          alias, tracked>>

---------------------------------------------------------------------------
(* Numbers *)

\* math.isclose(a, b) with the default rel_tol = 1e-09 and abs_tol = 0:
\* |a - b| <= rel_tol * max(|a|, |b|), on integers.
RelTolInv == 1000000000

Abs(n) == IF n < 0 THEN -n ELSE n

Max(a, b) == IF a >= b THEN a ELSE b

Min(a, b) == IF a <= b THEN a ELSE b

isclose(a, b) == a = b \/ Abs(a - b) <= Max(Abs(a), Abs(b)) \div RelTolInv

---------------------------------------------------------------------------
(* iBound: a value and the side of the cut the value belongs to *)

PART_OF_LEFT == TRUE

PART_OF_RIGHT == FALSE

iBound(value, part_of_left) == [value |-> value, part_of_left |-> part_of_left]

part_of_right(b) == ~b.part_of_left

\* Bounds order by value; at one value the bound whose value is part of the
\* right (the cut just before the value) comes before the bound whose value
\* is part of the left (the cut just after it).
iBound_lt(a, b) ==
    \/ a.value < b.value
    \/ a.value = b.value /\ part_of_right(a) /\ b.part_of_left

iBound_eq(a, b) == a.value = b.value /\ a.part_of_left = b.part_of_left

iBound_le(a, b) == iBound_lt(a, b) \/ iBound_eq(a, b)

iBound_gt(a, b) == iBound_lt(b, a)

---------------------------------------------------------------------------
(* iInterval *)

\* The object iInterval.__init__ leaves behind when it returns normally
iInterval(lower_bound, upper_bound) ==
    [lower_bound |-> lower_bound, upper_bound |-> upper_bound]

\* A variant of iInterval_init_ok that accepts equal values whatever the
\* sides of the bounds
iInterval_init_ok_NoDegenerateCheck(lower_bound, upper_bound) ==
    IF lower_bound.value = upper_bound.value
    THEN TRUE
    ELSE IF isclose(lower_bound.value, upper_bound.value)
    THEN FALSE
    ELSE ~(lower_bound.value > upper_bound.value)

\* iInterval.__init__ raises nothing
iInterval_init_ok(lower_bound, upper_bound) ==
    IF lower_bound.value = upper_bound.value
    THEN part_of_right(lower_bound) /\ upper_bound.part_of_left
    ELSE IF isclose(lower_bound.value, upper_bound.value)
    THEN FALSE
    ELSE ~(lower_bound.value > upper_bound.value)

iInterval_length(i) == i.upper_bound.value - i.lower_bound.value

\* ops.contains_lower_bound_atomic / ops.contains_upper_bound_atomic: the
\* bound lies in the interval by the bound ordering
contains_lower_bound(self, bound) ==
    iBound_le(self.lower_bound, bound) /\ iBound_lt(bound, self.upper_bound)

contains_upper_bound(self, bound) ==
    iBound_lt(self.lower_bound, bound) /\ iBound_le(bound, self.upper_bound)

\* The outcome of a computation that builds iIntervals: the intervals built
\* so far, and whether a constructor raised
Outcome(ivs, exc) == [ivs |-> ivs, raised |-> exc]

\* interim_result.append(iInterval(lower, upper)): the constructor runs first
append_new(out, lower_bound, upper_bound) ==
    IF out.raised
    THEN out
    ELSE IF iInterval_init_ok(lower_bound, upper_bound)
    THEN Outcome(Append(out.ivs, iInterval(lower_bound, upper_bound)), FALSE)
    ELSE Outcome(out.ivs, TRUE)

append_if(cond, out, lower_bound, upper_bound) ==
    IF cond THEN append_new(out, lower_bound, upper_bound) ELSE out

\* A variant of lower_piece that appends the piece even when the two lower
\* bounds are the same bound
lower_piece_NoBoundCheck(out, self_interval, other_interval) ==
    append_new(out, self_interval.lower_bound, other_interval.lower_bound)

\* The piece of self_interval before other_interval, appended unless the two
\* lower bounds are the same bound
lower_piece(out, self_interval, other_interval) ==
    append_if(~iBound_eq(self_interval.lower_bound, other_interval.lower_bound),
              out, self_interval.lower_bound, other_interval.lower_bound)

\* A variant of upper_piece that starts the piece at the lower bound of
\* other_interval
upper_piece_FromLowerBound(out, self_interval, other_interval) ==
    append_if(~iBound_eq(other_interval.upper_bound, self_interval.upper_bound),
              out, other_interval.lower_bound, self_interval.upper_bound)

\* The piece of self_interval after other_interval, appended unless the two
\* upper bounds are the same bound
upper_piece(out, self_interval, other_interval) ==
    append_if(~iBound_eq(other_interval.upper_bound, self_interval.upper_bound),
              out, other_interval.upper_bound, self_interval.upper_bound)

\* One pass of the inner loop body of iInterval.subtract: what self_interval
\* adds to interim_result when other_interval is taken away from it
subtract_step(out, self_interval, other_interval) ==
    LET other_contains_self_lower_bound ==
            contains_lower_bound(other_interval, self_interval.lower_bound)
        other_contains_self_upper_bound ==
            contains_upper_bound(other_interval, self_interval.upper_bound)
        self_contains_other_lower_bound ==
            contains_lower_bound(self_interval, other_interval.lower_bound)
        self_contains_other_upper_bound ==
            contains_upper_bound(self_interval, other_interval.upper_bound)
    IN  IF out.raised THEN out
        ELSE IF other_contains_self_lower_bound /\ other_contains_self_upper_bound
        THEN out
        ELSE IF self_contains_other_lower_bound /\ self_contains_other_upper_bound
        THEN upper_piece(lower_piece(out, self_interval, other_interval),
                         self_interval, other_interval)
        ELSE IF other_contains_self_lower_bound
        THEN upper_piece(out, self_interval, other_interval)
        ELSE IF other_contains_self_upper_bound
        THEN lower_piece(out, self_interval, other_interval)
        ELSE Outcome(Append(out.ivs, self_interval), FALSE)

\* for self_interval in result: the inner loop, from position k
RECURSIVE subtract_inner(_, _, _, _)
subtract_inner(out, result, k, other_interval) ==
    IF k > Len(result)
    THEN out
    ELSE subtract_inner(subtract_step(out, result[k], other_interval),
                        result, k + 1, other_interval)

\* for other_interval in other_intervals: the outer loop, from position k
RECURSIVE subtract_outer(_, _, _)
subtract_outer(result, other_intervals, k) ==
    IF result.raised \/ k > Len(other_intervals)
    THEN result
    ELSE subtract_outer(
             subtract_inner(Outcome(<<>>, FALSE), result.ivs, 1, other_intervals[k]),
             other_intervals, k + 1)

\* iInterval.subtract(self, other_intervals)
iInterval_subtract(self, other_intervals) ==
    subtract_outer(Outcome(<<self>>, FALSE), other_intervals, 1)


\* for other_interval in other: the loop of iInterval.hull, from position k
RECURSIVE hull_loop(_, _, _, _)
hull_loop(result_lower_bound, result_upper_bound, other, k) ==
    IF k > Len(other)
    THEN <<result_lower_bound, result_upper_bound>>
    ELSE LET lo == IF iBound_lt(other[k].lower_bound, result_lower_bound)
                   THEN other[k].lower_bound
                   ELSE result_lower_bound
             hi == IF iBound_gt(other[k].lower_bound, result_upper_bound)
                   THEN other[k].upper_bound
                   ELSE result_upper_bound
         IN  hull_loop(lo, hi, other, k + 1)

\* iInterval.hull(self, other)
iInterval_hull(self, other) ==
    LET b == hull_loop(self.lower_bound, self.upper_bound, other, 1)
    IN  append_new(Outcome(<<>>, FALSE), b[1], b[2])

\* iInterval.union(self, other): the members of both, chained
iInterval_union(self, other) == <<self>> \o other

\* ops.intersects, one pair: the later lower bound lies before the earlier
\* upper bound
intersects_atomic(a, b) ==
    LET lo == IF iBound_lt(a.lower_bound, b.lower_bound)
              THEN b.lower_bound ELSE a.lower_bound
        hi == IF iBound_lt(a.upper_bound, b.upper_bound)
              THEN a.upper_bound ELSE b.upper_bound
    IN  iBound_lt(lo, hi)

\* iInterval.intersects(self, other) and iInterval.disjoint(self, other)
iInterval_intersects(self, other) ==
    \E k \in 1..Len(other) : intersects_atomic(self, other[k])

iInterval_disjoint(self, other) == ~iInterval_intersects(self, other)

\* ops.intersect: the non-empty pairwise intersections with the members of
\* other, from position k, each built by the constructor
RECURSIVE intersect_loop(_, _, _, _)
intersect_loop(out, self, other, k) ==
    IF k > Len(other)
    THEN out
    ELSE LET b == other[k]
             lo == IF iBound_lt(self.lower_bound, b.lower_bound)
                   THEN b.lower_bound ELSE self.lower_bound
             hi == IF iBound_lt(self.upper_bound, b.upper_bound)
                   THEN self.upper_bound ELSE b.upper_bound
         IN  intersect_loop(append_if(iBound_lt(lo, hi), out, lo, hi),
                            self, other, k + 1)

\* iInterval.intersect(self, other)
iInterval_intersect(self, other) ==
    intersect_loop(Outcome(<<>>, FALSE), self, other, 1)

---------------------------------------------------------------------------
(* Interval: the legacy float interval, [start, end] with both ends part of it *)

Interval(start, end) == [start |-> start, end |-> end]

is_valid(i) == i.start <= i.end

\* A variant of Interval.intersect that returns None when self ends where
\* other starts
Interval_intersect_StrictEnd(self, other) ==
    IF self.end <= other.start THEN <<>>
    ELSE IF self.start > other.end THEN <<>>
    ELSE IF self.start <= other.start
    THEN IF self.end < other.end
         THEN <<Interval(other.start, self.end)>>
         ELSE <<Interval(other.start, other.end)>>
    ELSE IF self.start <= other.end
    THEN IF self.end < other.end
         THEN <<Interval(self.start, self.end)>>
         ELSE <<Interval(self.start, other.end)>>
    ELSE <<>>

\* Interval.intersect(self, other) for an Interval: <<>> is None
Interval_intersect(self, other) ==
    IF self.end < other.start THEN <<>>
    ELSE IF self.start > other.end THEN <<>>
    ELSE IF self.start <= other.start
    THEN IF self.end < other.end
         THEN <<Interval(other.start, self.end)>>
         ELSE <<Interval(other.start, other.end)>>
    ELSE IF self.start <= other.end
    THEN IF self.end < other.end
         THEN <<Interval(self.start, self.end)>>
         ELSE <<Interval(self.start, other.end)>>
    ELSE <<>>

\* Interval.intersects(self, other)
Interval_intersects(self, other) == Interval_intersect(self, other) # <<>>

\* Interval.hull(self, other)
Interval_hull(self, other) ==
    Interval(Min(self.start, other.start), Max(self.end, other.end))

\* Interval.touches(self, other)
Interval_touches(self, other) ==
    \/ self.start >= other.end /\ isclose(self.start, other.end)
    \/ self.end <= other.start /\ isclose(self.end, other.start)

---------------------------------------------------------------------------
(* The points of the real line, as far as intervals over ValuesA tell them *)
(* apart: <<v, 0>> is the value v itself, <<v, 1>> the open gap between v  *)
(* and the next value.                                                     *)

ValuesA == {0, 3, 5, 10, 1000000000, 1000000001, 1000000002}

Atoms == ValuesA \X {0, 1}

\* The points of one iInterval: those after the lower cut and before the upper
Points(i) ==
    {a \in Atoms :
        /\ \/ i.lower_bound.value < a[1]
           \/ i.lower_bound.value = a[1]
                /\ (IF i.lower_bound.part_of_left THEN 1 ELSE 0) <= a[2]
        /\ \/ a[1] < i.upper_bound.value
           \/ a[1] = i.upper_bound.value
                /\ a[2] < (IF i.upper_bound.part_of_left THEN 1 ELSE 0)}

\* The points of a collection of iIntervals
PointsOf(ivs) == UNION {Points(ivs[k]) : k \in 1..Len(ivs)}

closed(lower_bound, upper_bound) ==
    iInterval(iBound(lower_bound, PART_OF_RIGHT), iBound(upper_bound, PART_OF_LEFT))

open(lower_bound, upper_bound) ==
    iInterval(iBound(lower_bound, PART_OF_LEFT), iBound(upper_bound, PART_OF_RIGHT))

open_closed(lower_bound, upper_bound) ==
    iInterval(iBound(lower_bound, PART_OF_LEFT), iBound(upper_bound, PART_OF_LEFT))

closed_open(lower_bound, upper_bound) ==
    iInterval(iBound(lower_bound, PART_OF_RIGHT), iBound(upper_bound, PART_OF_RIGHT))

degenerate(value) ==
    iInterval(iBound(value, PART_OF_RIGHT), iBound(value, PART_OF_LEFT))

---------------------------------------------------------------------------
(* SpecA: calls of the pure operations *)

BoundsA == {iBound(v, s) : v \in ValuesA, s \in BOOLEAN}

\* The iIntervals the constructor lets exist
iIntervalsA ==
    {i \in {iInterval(l, u) : l \in BoundsA, u \in BoundsA} :
        iInterval_init_ok(i.lower_bound, i.upper_bound)}

\* The valid legacy Intervals
IntervalsA == {i \in {Interval(s, e) : s \in ValuesA, e \in ValuesA} : is_valid(i)}

\* The operands of one call, before it is made: two iBounds for the
\* constructor, or two or three iIntervals, or two legacy Intervals
InitA ==
    /\ fn = "none"
    /\ \/ /\ bounds \in BoundsA \X BoundsA
          /\ iargs = <<>>
          /\ largs = <<>>
       \/ /\ bounds = <<>>
          /\ iargs \in (iIntervalsA \X iIntervalsA)
                         \cup (iIntervalsA \X iIntervalsA \X iIntervalsA)
          /\ largs = <<>>
       \/ /\ bounds = <<>>
          /\ iargs = <<>>
          /\ largs \in IntervalsA \X IntervalsA
    /\ ires = <<>>
    /\ raised = FALSE
    /\ lres = <<>>
    /\ intervals = <<>>
    /\ op = "none"
    /\ arg = <<>>
    /\ restarts = 0
    /\ alias = <<>>
    /\ tracked = FALSE

\* iInterval(lower_bound, upper_bound)
Construct ==
    /\ fn = "none"
    /\ Len(bounds) = 2
    /\ fn' = "iInterval"
    /\ raised' = ~iInterval_init_ok(bounds[1], bounds[2])
    /\ ires' = IF iInterval_init_ok(bounds[1], bounds[2])
               THEN <<iInterval(bounds[1], bounds[2])>>
               ELSE <<>>
    /\ UNCHANGED <<bounds, iargs, largs, lres>>
    /\ UNCHANGED varsM

\* The record of a call on iIntervals that returned out
ICall(name, out) ==
    /\ fn' = name
    /\ raised' = out.raised
    /\ ires' = IF out.raised THEN <<>> ELSE out.ivs
    /\ UNCHANGED <<bounds, iargs, largs, lres>>
    /\ UNCHANGED varsM

\* A.subtract(B)
Subtract ==
    /\ fn = "none"
    /\ Len(iargs) = 2
    /\ ICall("subtract", iInterval_subtract(iargs[1], <<iargs[2]>>))

\* A.intersect(B)
Intersect ==
    /\ fn = "none"
    /\ Len(iargs) = 2
    /\ ICall("intersect", iInterval_intersect(iargs[1], <<iargs[2]>>))

\* A.hull(B), and A.hull of the collection B, C
Hull ==
    /\ fn = "none"
    /\ Len(iargs) >= 2
    /\ ICall("hull", iInterval_hull(iargs[1], Tail(iargs)))

\* The record of a call on legacy Intervals that returned out
LCall(name, out) ==
    /\ fn' = name
    /\ lres' = out
    /\ UNCHANGED <<bounds, iargs, largs, ires, raised>>
    /\ UNCHANGED varsM

\* A.intersect(B) on legacy Intervals
LIntersect ==
    /\ fn = "none"
    /\ Len(largs) = 2
    /\ LCall("Interval.intersect", Interval_intersect(largs[1], largs[2]))

\* A.hull(B) on legacy Intervals
LHull ==
    /\ fn = "none"
    /\ Len(largs) = 2
    /\ LCall("Interval.hull", <<Interval_hull(largs[1], largs[2])>>)

NextA ==
    \/ Construct
    \/ Subtract
    \/ Intersect
    \/ Hull
    \/ LIntersect
    \/ LHull

SpecA == InitA /\ [][NextA]_vars

---------------------------------------------------------------------------
(* Interval.subtract and the Multi_Interval container *)

\* What a method returns: None, one Interval, or a Multi_Interval of ivs
None == [kind |-> "None", ivs |-> <<>>]

AnInterval(i) == [kind |-> "Interval", ivs |-> <<i>>]

AMulti(ivs) == [kind |-> "Multi_Interval", ivs |-> ivs]

ValueError == [kind |-> "ValueError", ivs |-> <<>>]

\* Interval.copy(self)
copy(self) == Interval(self.start, self.end)

\* Interval.subtract(self, other) for an Interval
Interval_subtract(self, other) ==
    IF self.end <= other.start THEN AnInterval(copy(self))
    ELSE IF self.start >= other.end THEN AnInterval(copy(self))
    ELSE IF self.start <= other.start
    THEN IF self.end < other.end
         THEN AnInterval(Interval(self.start, other.start))
         ELSE AMulti(<<Interval(self.start, other.start),
                       Interval(other.end, self.end)>>)
    ELSE IF self.start < other.end
    THEN IF self.end < other.end
         THEN None
         ELSE AnInterval(Interval(other.end, self.end))
    ELSE ValueError

\* Interval.intersect(self, other) for a Multi_Interval: the intersections
\* with its members that are not None, from position k
RECURSIVE intersect_members(_, _, _)
intersect_members(self, members, k) ==
    IF k > Len(members)
    THEN <<>>
    ELSE Interval_intersect(self, members[k]) \o intersect_members(self, members, k + 1)

\* interval.intersects(interval_to_add), whatever interval_to_add is by now
intersects_any(self, other) ==
    IF other.kind = "Multi_Interval"
    THEN intersect_members(self, other.ivs, 1) # <<>>
    ELSE Interval_intersects(self, other.ivs[1])

\* Multi_Interval.subtract(self, interval_to_subtract): the new member list,
\* from member k
RECURSIVE Multi_Interval_subtract_from(_, _, _)
Multi_Interval_subtract_from(members, interval_to_subtract, k) ==
    IF k > Len(members)
    THEN <<>>
    ELSE (IF Interval_intersect(members[k], interval_to_subtract) # <<>>
          THEN Interval_subtract(members[k], interval_to_subtract).ivs
          ELSE <<members[k]>>)
         \o Multi_Interval_subtract_from(members, interval_to_subtract, k + 1)

Multi_Interval_subtract(members, interval_to_subtract) ==
    Multi_Interval_subtract_from(members, interval_to_subtract, 1)

\* Multi_Interval.add_overlapping(self, interval) for an Interval
add_overlapping(members, interval) == Append(members, copy(interval))

\* Multi_Interval.add_hard(self, interval_to_add)
add_hard(members, interval_to_add) ==
    add_overlapping(Multi_Interval_subtract(members, interval_to_add), interval_to_add)

\* A variant of the loop of add_soft that stops scanning after the first
\* member it subtracts
add_soft_loop_StopsAfterFirst(members, interval_to_add, k) ==
    LET hits == {j \in k..Len(members) : intersects_any(members[j], interval_to_add)}
    IN  IF hits = {}
        THEN interval_to_add
        ELSE Interval_subtract(interval_to_add.ivs[1],
                               members[CHOOSE j \in hits : \A i \in hits : j <= i])

\* The loop of add_soft from member k: what is left of interval_to_add
RECURSIVE add_soft_loop(_, _, _)
add_soft_loop(members, interval_to_add, k) ==
    IF k > Len(members)
    THEN interval_to_add
    ELSE IF intersects_any(members[k], interval_to_add)
    THEN LET left == IF interval_to_add.kind = "Multi_Interval"
                     THEN AMulti(Multi_Interval_subtract(interval_to_add.ivs, members[k]))
                     ELSE Interval_subtract(interval_to_add.ivs[1], members[k])
         IN  IF left.kind = "None"
             THEN left
             ELSE add_soft_loop(members, left, k + 1)
    ELSE add_soft_loop(members, interval_to_add, k + 1)

\* Multi_Interval.add_soft(self, interval_to_add)
add_soft(members, interval_to_add) ==
    members \o add_soft_loop(members, AnInterval(interval_to_add), 1).ivs

\* The list without its member at position k
RemoveAt(members, k) ==
    SubSeq(members, 1, k - 1) \o SubSeq(members, k + 1, Len(members))

\* A variant of first_to_merge that leaves out interval.touches(...)
first_to_merge_IntersectsOnly(members, original_interval_to_add) ==
    LET hits == {k \in 1..Len(members) :
                    Interval_intersects(members[k], original_interval_to_add)}
    IN  IF hits = {} THEN 0 ELSE CHOOSE k \in hits : \A j \in hits : k <= j

\* The first member add_merge folds: it intersects or touches the interval
\* originally passed (0 when there is none)
first_to_merge(members, original_interval_to_add) ==
    LET hits == {k \in 1..Len(members) :
                    \/ Interval_intersects(members[k], original_interval_to_add)
                    \/ Interval_touches(members[k], original_interval_to_add)}
    IN  IF hits = {} THEN 0 ELSE CHOOSE k \in hits : \A j \in hits : k <= j

\* A variant of the while loop of add_merge that tests the members against
\* the growing candidate instead of the interval originally passed
RECURSIVE add_merge_loop_GrowingCandidate(_, _, _, _)
add_merge_loop_GrowingCandidate(members, interval_to_add, original_interval_to_add, n) ==
    LET k == first_to_merge(members, interval_to_add)
    IN  IF k = 0
        THEN [ivs |-> Append(members, interval_to_add), restarts |-> n]
        ELSE add_merge_loop_GrowingCandidate(
                 RemoveAt(members, k),
                 Interval_hull(interval_to_add, members[k]),
                 original_interval_to_add, n + 1)

\* One scan of a variant of add_merge that goes on scanning after a removal
\* (no break): the member that moved into the freed position is skipped
RECURSIVE add_merge_scan_NoBreak(_, _, _, _, _)
add_merge_scan_NoBreak(members, interval_to_add, original_interval_to_add, i, must_restart) ==
    IF i > Len(members)
    THEN [ivs |-> members, interval_to_add |-> interval_to_add,
          must_restart |-> must_restart]
    ELSE IF \/ Interval_intersects(members[i], original_interval_to_add)
            \/ Interval_touches(members[i], original_interval_to_add)
    THEN add_merge_scan_NoBreak(RemoveAt(members, i),
                                Interval_hull(interval_to_add, members[i]),
                                original_interval_to_add, i + 1, TRUE)
    ELSE add_merge_scan_NoBreak(members, interval_to_add, original_interval_to_add,
                                i + 1, must_restart)

\* A variant of the while loop of add_merge whose scans have no break
RECURSIVE add_merge_loop_NoBreak(_, _, _, _)
add_merge_loop_NoBreak(members, interval_to_add, original_interval_to_add, n) ==
    LET r == add_merge_scan_NoBreak(members, interval_to_add,
                                    original_interval_to_add, 1, FALSE)
    IN  IF r.must_restart
        THEN add_merge_loop_NoBreak(r.ivs, r.interval_to_add,
                                    original_interval_to_add, n + 1)
        ELSE [ivs |-> Append(members, interval_to_add), restarts |-> n]

\* The while loop of add_merge: the members left, the candidate, and the
\* number of times the scan was restarted
RECURSIVE add_merge_loop(_, _, _, _)
add_merge_loop(members, interval_to_add, original_interval_to_add, n) ==
    LET k == first_to_merge(members, original_interval_to_add)
    IN  IF k = 0
        THEN [ivs |-> Append(members, interval_to_add), restarts |-> n]
        ELSE add_merge_loop(RemoveAt(members, k),
                            Interval_hull(interval_to_add, members[k]),
                            original_interval_to_add, n + 1)

\* Multi_Interval.add_merge(self, interval_to_add)
add_merge(members, interval_to_add) ==
    add_merge_loop(members, interval_to_add, interval_to_add, 0)

\* itertools.combinations(self.intervals, 2), as positions, in its order
Combinations(members) ==
    {c \in (1..Len(members)) \X (1..Len(members)) : c[1] < c[2]}

CombinationBefore(c, d) == c[1] < d[1] \/ (c[1] = d[1] /\ c[2] < d[2])

\* A variant of first_pair that leaves out a.touches(b)
first_pair_IntersectsOnly(members) ==
    LET hits == {c \in Combinations(members) :
                    Interval_intersects(members[c[1]], members[c[2]])}
    IN  IF hits = {}
        THEN <<0, 0>>
        ELSE CHOOSE c \in hits : \A d \in hits : c = d \/ CombinationBefore(c, d)

\* The first pair merge_touching_and_intersecting merges (<<0, 0>> when
\* there is none)
first_pair(members) ==
    LET hits == {c \in Combinations(members) :
                    \/ Interval_intersects(members[c[1]], members[c[2]])
                    \/ Interval_touches(members[c[1]], members[c[2]])}
    IN  IF hits = {}
        THEN <<0, 0>>
        ELSE CHOOSE c \in hits : \A d \in hits : c = d \/ CombinationBefore(c, d)

\* A variant of the while loop of merge_touching_and_intersecting that does
\* not restart after a merge
merge_loop_SinglePass(members, n) ==
    LET c == first_pair(members)
    IN  IF c = <<0, 0>>
        THEN [ivs |-> members, restarts |-> n]
        ELSE [ivs |-> Append(RemoveAt(RemoveAt(members, c[2]), c[1]),
                             Interval_hull(members[c[1]], members[c[2]])),
              restarts |-> n + 1]

\* The while loop of merge_touching_and_intersecting
RECURSIVE merge_loop(_, _)
merge_loop(members, n) ==
    LET c == first_pair(members)
    IN  IF c = <<0, 0>>
        THEN [ivs |-> members, restarts |-> n]
        ELSE merge_loop(
                 Append(RemoveAt(RemoveAt(members, c[2]), c[1]),
                        Interval_hull(members[c[1]], members[c[2]])),
                 n + 1)

\* Multi_Interval.merge_touching_and_intersecting(self)
merge_touching_and_intersecting(members) == merge_loop(members, 0)

---------------------------------------------------------------------------
(* Object identity: which members are the instance a caller passed.  A     *)
(* member is either that instance (TRUE) or an object made inside the      *)
(* library by copy(), hull() or subtract() (FALSE).                        *)

\* n objects that are all the caller's, or all made inside the library
Repeat(n, v) == [k \in 1..n |-> v]

\* Multi_Interval.__init__(self, iter_intervals): every interval is appended
\* as it is
Multi_Interval_init_alias(iter_intervals) == Repeat(Len(iter_intervals), TRUE)

\* Multi_Interval.subtract: a member that is subtracted from is replaced by
\* new objects, the others stay the objects they were
RECURSIVE Multi_Interval_subtract_alias(_, _, _, _)
Multi_Interval_subtract_alias(members, al, interval_to_subtract, k) ==
    IF k > Len(members)
    THEN <<>>
    ELSE (IF Interval_intersect(members[k], interval_to_subtract) # <<>>
          THEN Repeat(Len(Interval_subtract(members[k], interval_to_subtract).ivs), FALSE)
          ELSE <<al[k]>>)
         \o Multi_Interval_subtract_alias(members, al, interval_to_subtract, k + 1)

\* Multi_Interval.add_overlapping: interval.copy() is appended
add_overlapping_alias(al) == Append(al, FALSE)

\* Multi_Interval.add_hard: subtract, then add_overlapping
add_hard_alias(members, al, interval_to_add) ==
    add_overlapping_alias(Multi_Interval_subtract_alias(members, al, interval_to_add, 1))

\* Multi_Interval.add_soft: the members stay, and what is appended is a copy
add_soft_alias(members, al, interval_to_add) ==
    al \o Repeat(Len(add_soft(members, interval_to_add)) - Len(members), FALSE)

\* The while loop of add_merge: interval_to_add is the caller's instance
\* until hull() replaces it, and it is appended as it is
RECURSIVE add_merge_alias_loop(_, _, _, _)
add_merge_alias_loop(members, al, is_callers, original_interval_to_add) ==
    LET k == first_to_merge(members, original_interval_to_add)
    IN  IF k = 0
        THEN Append(al, is_callers)
        ELSE add_merge_alias_loop(RemoveAt(members, k), RemoveAt(al, k), FALSE,
                                  original_interval_to_add)

\* Multi_Interval.add_merge
add_merge_alias(members, al, interval_to_add) ==
    add_merge_alias_loop(members, al, TRUE, interval_to_add)

\* The while loop of merge_touching_and_intersecting: a and b are removed
\* and the new object a.hull(b) is appended
RECURSIVE merge_alias_loop(_, _)
merge_alias_loop(members, al) ==
    LET c == first_pair(members)
    IN  IF c = <<0, 0>>
        THEN al
        ELSE merge_alias_loop(
                 Append(RemoveAt(RemoveAt(members, c[2]), c[1]),
                        Interval_hull(members[c[1]], members[c[2]])),
                 Append(RemoveAt(RemoveAt(al, c[2]), c[1]), FALSE))

---------------------------------------------------------------------------
(* Spec: one Multi_Interval and the calls of its methods *)

\* The most members the container is let grow to
MaxLen == 3

\* The floats a caller uses: small ones, and two distinct ones that are
\* within tolerance of each other (members can touch without intersecting)
ValuesM == {0, 5, 10, 1000000000, 1000000001}

\* The value at which the Intervals a caller passes are cut
CutM == 10

\* The valid Intervals a caller passes: those that end at CutM or before
\* it, and those that start at CutM or after it
IntervalsM ==
    {i \in {Interval(s, e) : s \in ValuesM, e \in ValuesM} :
        is_valid(i) /\ (i.end <= CutM \/ i.start >= CutM)}

\* The iterables a caller passes to Multi_Interval(...): no Interval or one
IterablesM == {<<>>} \cup {<<x>> : x \in IntervalsM}

\* The variables of SpecA, which Spec leaves as they are
IdleA ==
    /\ fn = "none"
    /\ bounds = <<>>
    /\ iargs = <<>>
    /\ ires = <<>>
    /\ raised = FALSE
    /\ largs = <<>>
    /\ lres = <<>>

\* Multi_Interval(iter_intervals), with object identity followed or not
Multi_Interval_init(iter_intervals, identity) ==
    /\ intervals = iter_intervals
    /\ tracked = identity
    /\ alias = IF identity THEN Multi_Interval_init_alias(iter_intervals) ELSE <<>>
    /\ op = "none"
    /\ arg = <<>>
    /\ restarts = 0
    /\ IdleA

\* Multi_Interval([])
Init == Multi_Interval_init(<<>>, FALSE)

\* Multi_Interval(iter_intervals) for the iterables of IterablesM
InitAlias ==
    \E iter_intervals \in IterablesM : Multi_Interval_init(iter_intervals, TRUE)

\* The caller is between two calls
Idle == op = "none"

\* The record of a call name(x) that left members, of which al are the
\* caller's instances, and restarted n scans
MCall(name, x, members, n, al) ==
    /\ Len(members) <= MaxLen
    /\ intervals' = members
    /\ op' = name
    /\ arg' = x
    /\ restarts' = n
    /\ alias' = IF tracked THEN al ELSE alias
    /\ UNCHANGED <<tracked>>
    /\ UNCHANGED varsA

AddOverlapping ==
    /\ Idle
    /\ \E x \in IntervalsM :
           \E r \in {add_overlapping(intervals, x)} :
               MCall("add_overlapping", <<x>>, r, 0, add_overlapping_alias(alias))

AddHard ==
    /\ Idle
    /\ \E x \in IntervalsM :
           \E r \in {add_hard(intervals, x)} :
               MCall("add_hard", <<x>>, r, 0, add_hard_alias(intervals, alias, x))

AddSoft ==
    /\ Idle
    /\ \E x \in IntervalsM :
           \E r \in {add_soft(intervals, x)} :
               MCall("add_soft", <<x>>, r, 0, add_soft_alias(intervals, alias, x))

AddMerge ==
    /\ Idle
    /\ \E x \in IntervalsM :
           \E r \in {add_merge(intervals, x)} :
               MCall("add_merge", <<x>>, r.ivs, r.restarts,
                     add_merge_alias(intervals, alias, x))

MergeTouchingAndIntersecting ==
    /\ Idle
    /\ \E r \in {merge_touching_and_intersecting(intervals)} :
           MCall("merge_touching_and_intersecting", <<>>, r.ivs, r.restarts,
                 merge_alias_loop(intervals, alias))

MultiSubtract ==
    /\ Idle
    /\ \E x \in IntervalsM :
           \E r \in {Multi_Interval_subtract(intervals, x)} :
               MCall("subtract", <<x>>, r, 0,
                     Multi_Interval_subtract_alias(intervals, alias, x, 1))

\* The caller assigns start and end of an Interval it passed earlier and
\* still holds; a member that is that instance changes with it
CallerMutates ==
    /\ Idle
    /\ tracked
    /\ \E k \in 1..Len(intervals) :
           /\ alias[k]
           /\ \E x \in IntervalsM :
                  /\ x # intervals[k]
                  /\ intervals' = [intervals EXCEPT ![k] = x]
    /\ UNCHANGED <<op, arg, restarts, alias, tracked>>
    /\ UNCHANGED varsA

\* The call has returned self and the caller goes on to its next call
Return ==
    /\ ~Idle
    /\ op' = "none"
    /\ arg' = <<>>
    /\ restarts' = 0
    /\ UNCHANGED <<intervals, alias, tracked>>
    /\ UNCHANGED varsA

Next ==
    \/ AddOverlapping
    \/ AddHard
    \/ AddSoft
    \/ AddMerge
    \/ MultiSubtract
    \/ MergeTouchingAndIntersecting
    \/ Return

Spec == Init /\ [][Next]_vars

\* The container, with a caller that constructs it from Intervals and
\* mutates the Intervals it passed
NextAlias ==
    \/ Next
    \/ CallerMutates

SpecAlias == InitAlias /\ [][NextAlias]_vars

\* An empty container to which only add_merge is applied
NextMerge ==
    \/ AddMerge
    \/ Return

SpecMerge == Init /\ [][NextMerge]_vars

---------------------------------------------------------------------------
(* Claims about iInterval and Interval, checked under SpecA *)

\* An iInterval as the data model wants it: lower.value <= upper.value, and
\* closed on both ends when its length is 0
WellFormed(i) ==
    /\ i.lower_bound.value <= i.upper_bound.value
    /\ iInterval_length(i) = 0 =>
           part_of_right(i.lower_bound) /\ i.upper_bound.part_of_left

\* C1: iInterval(lower, upper) raises exactly when lower.value > upper.value,
\* or the values are equal and a bound is exclusive, or the values are
\* distinct but within tolerance; so every iInterval that exists (an operand
\* or a result of any call) has lower.value <= upper.value and is closed on
\* both ends when its length is 0.
C1_ConstructorInvariant ==
    /\ fn = "iInterval" =>
           LET l == bounds[1]
               u == bounds[2]
           IN  raised <=>
                   \/ l.value > u.value
                   \/ l.value = u.value /\ ~(part_of_right(l) /\ u.part_of_left)
                   \/ l.value # u.value /\ isclose(l.value, u.value)
    /\ \A k \in 1..Len(ires) : WellFormed(ires[k])
    /\ \A k \in 1..Len(iargs) : WellFormed(iargs[k])
    /\ (fn = "iInterval" /\ bounds = <<iBound(3, PART_OF_LEFT), iBound(3, PART_OF_RIGHT)>>)
           => raised

\* C1 witness: degenerate(3) was constructed and has length 0
C1_Witness ==
    /\ fn = "iInterval"
    /\ bounds = <<iBound(3, PART_OF_RIGHT), iBound(3, PART_OF_LEFT)>>
    /\ ~raised
    /\ iInterval_length(ires[1]) = 0

\* Two values that differ and are within the tolerance of math.isclose
DistinctClose(a, b) == a # b /\ isclose(a, b)

\* Two of the bound values of A and B differ and are within tolerance
NearBounds(A, B) ==
    \E a, b \in {A.lower_bound.value, A.upper_bound.value,
                 B.lower_bound.value, B.upper_bound.value} : DistinctClose(a, b)

\* What C2 says of a result A.subtract(B) returned
SubtractExact(A, B, result) ==
    /\ Len(result) <= 2
    /\ \A k \in 1..Len(result) :
           /\ iInterval_init_ok(result[k].lower_bound, result[k].upper_bound)
           /\ result[k].lower_bound \in {A.lower_bound, B.upper_bound}
           /\ result[k].upper_bound \in {A.upper_bound, B.lower_bound}
    /\ Len(result) = 2 => iBound_le(result[1].upper_bound, result[2].lower_bound)
    /\ PointsOf(result) = Points(A) \ Points(B)
    /\ (A = closed(0, 10) /\ B = closed(3, 5))
           => result = <<closed_open(0, 3), open_closed(5, 10)>>
    /\ (A = closed(0, 5) /\ B = closed(0, 10)) => result = <<>>
    /\ (A = closed(0, 5) /\ B = closed(5, 10)) => result = <<closed_open(0, 5)>>

MinLower(ivs) ==
    CHOOSE b \in {ivs[k].lower_bound : k \in 1..Len(ivs)} :
        \A k \in 1..Len(ivs) : iBound_le(b, ivs[k].lower_bound)

MaxUpper(ivs) ==
    CHOOSE b \in {ivs[k].upper_bound : k \in 1..Len(ivs)} :
        \A k \in 1..Len(ivs) : iBound_le(ivs[k].upper_bound, b)

\* C4, for the calls that return: hull returns the interval from the least
\* lower bound to the greatest upper bound of all operands, so A.hull(B) is
\* B.hull(A) and A.hull(B).hull(C) is A.hull(B.hull(C)); the same for the
\* legacy Interval.
C4_HullMinMax ==
    /\ (fn = "hull" /\ ~raised) =>
           /\ ires = <<iInterval(MinLower(iargs), MaxUpper(iargs))>>
           /\ Len(iargs) = 2 =>
                  iInterval_hull(iargs[2], <<iargs[1]>>) = Outcome(ires, FALSE)
           /\ Len(iargs) = 3 =>
                  LET AB == iInterval_hull(iargs[1], <<iargs[2]>>)
                      BC == iInterval_hull(iargs[2], <<iargs[3]>>)
                  IN  (~AB.raised /\ ~BC.raised) =>
                          iInterval_hull(AB.ivs[1], <<iargs[3]>>)
                              = iInterval_hull(iargs[1], BC.ivs)
    /\ fn = "Interval.hull" =>
           /\ lres = <<Interval(Min(largs[1].start, largs[2].start),
                                Max(largs[1].end, largs[2].end))>>
           /\ lres = <<Interval_hull(largs[2], largs[1])>>

---------------------------------------------------------------------------
(* Claims about Multi_Interval, checked under Spec *)

\* Two members that intersect or touch
IntersectOrTouch(a, b) == Interval_intersects(a, b) \/ Interval_touches(a, b)

\* The step is a call of the method name
Calls(name) == Idle /\ op' = name

\* The positions of the members add_merge(X) folds: those that intersect or
\* touch X itself
FoldedBy(members, X) == {k \in 1..Len(members) : IntersectOrTouch(members[k], X)}

\* The members at the positions of keep, in their order
RECURSIVE Keep(_, _, _)
Keep(members, keep, k) ==
    IF k > Len(members)
    THEN <<>>
    ELSE (IF k \in keep THEN <<members[k]>> ELSE <<>>) \o Keep(members, keep, k + 1)

\* C6 as stated: when add_merge(X) returns, the appended member covers X,
\* and no other remaining member intersects or touches the appended member
\* (every member that intersects or touches the growing candidate was
\* folded); adding [0,5] then [5,10] to an empty container leaves [0,10].
C6_AddMergeGrowingCandidate ==
    op = "add_merge" =>
        LET appended == intervals[Len(intervals)]
        IN  /\ appended.start <= arg[1].start /\ arg[1].end <= appended.end
            /\ \A k \in 1..(Len(intervals) - 1) :
                   ~IntersectOrTouch(intervals[k], appended)

\* C6 amended: add_merge(X) folds exactly the members that intersect or touch
\* X itself, the interval originally passed: the members that do not are
\* kept in their order, the appended member is the hull of X and the folded
\* members, one restart is made per folded member, and no remaining member
\* intersects or touches X (it may still intersect or touch the appended
\* member); adding [5,10] to the single member [0,5] leaves [0,10].
C6_AddMergeOriginal ==
    [][Calls("add_merge") =>
          LET X == arg'[1]
              folded == FoldedBy(intervals, X)
              kept == (1..Len(intervals)) \ folded
              appended == intervals'[Len(intervals')]
          IN  /\ intervals' = Append(Keep(intervals, kept, 1), appended)
              /\ \A k \in folded :
                     /\ appended.start <= intervals[k].start
                     /\ intervals[k].end <= appended.end
              /\ appended.start <= X.start /\ X.end <= appended.end
              /\ appended.start \in {X.start} \cup {intervals[k].start : k \in folded}
              /\ appended.end \in {X.end} \cup {intervals[k].end : k \in folded}
              /\ restarts' = Cardinality(folded)
              /\ \A k \in 1..(Len(intervals') - 1) :
                     ~IntersectOrTouch(intervals'[k], X)
              /\ (intervals = <<Interval(0, 5)>> /\ X = Interval(5, 10))
                     => intervals' = <<Interval(0, 10)>>
      ]_vars

\* C6 witness: add_merge([5,10]) folded a member and left the single [0,10]
C6_Witness ==
    /\ op = "add_merge"
    /\ arg = <<Interval(5, 10)>>
    /\ restarts = 1
    /\ intervals = <<Interval(0, 10)>>

\* C7: after merge_touching_and_intersecting() returns, no two distinct
\* members intersect and no two distinct members touch.
C7_MergedIsNormalized ==
    op = "merge_touching_and_intersecting" =>
        \A i, j \in 1..Len(intervals) :
            i # j =>
                /\ ~Interval_intersects(intervals[i], intervals[j])
                /\ ~Interval_touches(intervals[i], intervals[j])

\* C7 witness: one merge was made and two members are left
C7_Witness ==
    /\ op = "merge_touching_and_intersecting"
    /\ restarts = 1
    /\ Len(intervals) = 2

\* C8: merge_touching_and_intersecting() applied again to the container it
\* left gives the same members in the same order.
C8_MergeIdempotent ==
    op = "merge_touching_and_intersecting" =>
        merge_touching_and_intersecting(intervals).ivs = intervals

\* C8 witness: the first call merged three members into one
C8_Witness ==
    /\ op = "merge_touching_and_intersecting"
    /\ restarts = 2
    /\ Len(intervals) = 1

\* C9: after M.add_hard(X), a second M.add_hard(X) leaves the members as
\* they are.
C9_AddHardIdempotent ==
    op = "add_hard" => add_hard(intervals, arg[1]) = intervals

\* The two intervals overlap over a range of positive length
OverlapsPositively(a, b) == Max(a.start, b.start) < Min(a.end, b.end)

ClaimedPieces(member, X) ==
    IF ~Interval_intersects(member, X) THEN <<member>>
    ELSE IF X.start <= member.start /\ member.end <= X.end THEN <<>>
    ELSE IF member.start < X.start /\ X.end < member.end
    THEN <<Interval(member.start, X.start), Interval(X.end, member.end)>>
    ELSE IF member.start < X.start
    THEN <<Interval(member.start, X.start)>>
    ELSE <<Interval(X.end, member.end)>>

\* The pieces of the members from position k, in order
RECURSIVE ClaimedSubtract(_, _, _)
ClaimedSubtract(members, X, k) ==
    IF k > Len(members)
    THEN <<>>
    ELSE ClaimedPieces(members[k], X) \o ClaimedSubtract(members, X, k + 1)

\* C11: Multi_Interval.subtract(X) replaces each member, in order, by the
\* pieces of that member minus X: a member that does not intersect X is
\* kept, a member X cuts in the middle becomes two members, and a member X
\* wholly consumes (a member equal to X too) contributes no member.
C11_SubtractDropsConsumed ==
    [][Calls("subtract") => intervals' = ClaimedSubtract(intervals, arg'[1], 1)]_vars

\* C13: the restart-on-change loops end on every container: a scan is
\* restarted only after a removal that made the member list shorter, so
\* add_merge on n members restarts at most n times, each restart having
\* removed exactly one member, and merge_touching_and_intersecting makes at
\* most n - 1 merges, each of which leaves one member fewer.
C13_RestartsBounded ==
    [][/\ Calls("add_merge") =>
              /\ restarts' <= Len(intervals)
              /\ Len(intervals') = Len(intervals) - restarts' + 1
       /\ Calls("merge_touching_and_intersecting") =>
              /\ restarts' <= Max(Len(intervals) - 1, 0)
              /\ Len(intervals') = Len(intervals) - restarts'
      ]_vars

\* C13 witness: add_merge folded all three members of the container, one
\* restart each
C13_Witness ==
    /\ op = "add_merge"
    /\ restarts = 3
    /\ Len(intervals) = 1

---------------------------------------------------------------------------
(* Claims about object identity, checked under SpecAlias *)

\* C12: a Multi_Interval never holds as a member the very Interval instance
\* a caller passed, whatever the insertion path (the constructor,
\* add_overlapping, add_hard, add_soft, add_merge), so a caller that mutates
\* its instance cannot change a member.
C12_NoMemberIsCallersInstance ==
    tracked => \A k \in 1..Len(intervals) : ~alias[k]

---------------------------------------------------------------------------
(* Claims about a container built by add_merge alone, checked under SpecMerge *)

\* C14: from an empty Multi_Interval, whatever sequence of add_merge calls
\* with valid intervals is applied and nothing else, no two members of the
\* container intersect or touch, although add_merge tests the members
\* against the interval originally passed and not against the hull.
C14_AddMergeOnlyNormalized ==
    \A i, j \in 1..Len(intervals) :
        i # j => ~IntersectOrTouch(intervals[i], intervals[j])

\* C14 witness: an add_merge folded a member while another member, which
\* the interval passed neither intersects nor touches, stayed
C14_Witness ==
    /\ op = "add_merge"
    /\ restarts >= 1
    /\ Len(intervals) >= 2

===========================================================================
